---- MODULE Spec2Model ----
(***************************************************************************)
(* Model of the Portfolio class of app/portfolio.py: the holdings table,   *)
(* the model allocation table, the derived core and satellite tables, the  *)
(* unconstrained and the no-sell rebalance, and the spend simulation.      *)
(*                                                                         *)
(* A DataFrame is a sequence of rows in row order; a row is a record whose *)
(* fields are the columns, with the index as field "ticker".  A column a   *)
(* table does not have is a field its rows do not have.                    *)
(*                                                                         *)
(* Numbers.  quantity, closing_price and total_value are integers.  A      *)
(* float column that can hold a fraction, inf or NaN is a record           *)
(* [num, den] with den >= 0: num/den when den > 0, +inf when den = 0 and   *)
(* num > 0, NaN when both are 0.  target_allocation is held in units of    *)
(* 1/AllocScale and the exchange rate in units of 1/RateScale, so that     *)
(* target_value is in units of 1/AllocScale and total_value_cad in units   *)
(* of 1/RateScale.  Decimal fractions are computed exactly, and where the  *)
(* doubles of the code decide otherwise the difference is taken from a     *)
(* table made with IEEE 754 doubles over the inputs of the model: the      *)
(* rounding of the allocation sum (FloatSumAboveHalf), the ceil of         *)
(* _rebalance (FloatProductAbove) and the ceil of _rebalance_no_sell       *)
(* (FloatRoundsAbove).  Outside those inputs the tables say nothing.       *)
(***************************************************************************)
EXTENDS Integers, Sequences, FiniteSets, TLC

(* ---------------------------------------------------------------- bounds *)
\* Largest quantity update_quantity is given.
MaxQty == 2
\* Largest amount spend_money_scenario is given.
MaxCash == 3

(* ----------------------------------------------------------------- units *)
\* target_allocation k/AllocScale: three decimals, one more than round(total, 2) keeps.
AllocScale == 1000
\* exchange rate k/RateScale (cad / usd, a float in the source).
RateScale == 100

(* ---------------------------------------------------------- float values *)
Fin(n) == [num |-> n, den |-> 1]
PosInf == [num |-> 1, den |-> 0]
NaN == [num |-> 0, den |-> 0]
IsFinite(x) == x.den > 0
IsNaN(x) == x.den = 0 /\ x.num = 0

\* n / d for n >= 0 and d >= 0, as IEEE division gives it, unreduced.
FDiv(n, d) == IF d > 0 THEN [num |-> n, den |-> d]
              ELSE IF n > 0 THEN PosInf ELSE NaN

\* ceil(n / d) for d > 0.
CeilDiv(n, d) == IF n >= 0 THEN (n + d - 1) \div d ELSE -((-n) \div d)

\* np.ceil of a float value: inf and NaN pass through.
FCeil(x) == IF IsFinite(x) THEN Fin(CeilDiv(x.num, x.den)) ELSE x

\* x - k for an integer-valued or non-finite x and an integer k.
FSubInt(x, k) == IF IsFinite(x) THEN Fin(x.num - k) ELSE x

\* x * k for an integer-valued or non-finite x and an integer k >= 0: inf * 0 is NaN.
FMulInt(x, k) == IF IsFinite(x) THEN Fin(x.num * k)
                 ELSE IF IsNaN(x) \/ k = 0 THEN NaN ELSE PosInf

(* ------------------------------------------------------- table utilities *)
IndexSet(df) == {df[i].ticker : i \in 1..Len(df)}

\* df.loc[t]: the row of ticker t (tickers are unique keys).
Loc(df, t) == df[CHOOSE i \in 1..Len(df) : df[i].ticker = t]

\* df.total_value.sum()
RECURSIVE SumTotalValue(_)
SumTotalValue(df) == IF df = <<>> THEN 0 ELSE Head(df).total_value + SumTotalValue(Tail(df))

\* A row with column c set to v, the column added when the row has none.
With(r, c, v) == [f \in DOMAIN r \cup {c} |-> IF f = c THEN v ELSE r[f]]

\* A row of a holdings file and a row of a model file.
H(t, q, p, c) == [ticker |-> t, quantity |-> q, closing_price |-> p, currency |-> c]
M(t, a) == [ticker |-> t, target_allocation |-> a]

(* ------------------------------------------------------- get_exchange_rate *)
\* str() of a rate and float() of a text, for the rates of the model: pairs
\* of a text and the rate in units of 1/RateScale.
FloatTexts == { <<"1.35", 135>>, <<"1.5", 150>> }

str(exchange_cad) == (CHOOSE p \in FloatTexts : p[2] = exchange_cad)[1]

float_raises(text) == ~ \E p \in FloatTexts : p[1] = text

float(text) == (CHOOSE p \in FloatTexts : p[1] = text)[2]

\* The call of line 53: the exception it ends with, the rate it returns and
\* the backup file it leaves.
get_exchange_rate(api, backup_file) ==
    IF api.outcome = "rates"
    THEN IF api.usd = 0
         THEN [raises |-> "ZeroDivisionError", rate |-> 0, backup_file |-> backup_file]
         ELSE LET exchange_cad == (api.cad * RateScale) \div api.usd
              IN  [raises |-> "none", rate |-> exchange_cad,
                   backup_file |-> [exists |-> TRUE, text |-> str(exchange_cad)]]
    ELSE IF api.outcome = "no rates"
    THEN [raises |-> "KeyError", rate |-> 0, backup_file |-> backup_file]
    ELSE IF api.outcome = "TimeoutError"
    THEN IF ~ backup_file.exists
         THEN [raises |-> "FileNotFoundError", rate |-> 0, backup_file |-> backup_file]
         ELSE IF float_raises(backup_file.text)
         THEN [raises |-> "ValueError", rate |-> 0, backup_file |-> backup_file]
         ELSE [raises |-> "none", rate |-> float(backup_file.text),
               backup_file |-> backup_file]
    ELSE [raises |-> api.outcome, rate |-> 0, backup_file |-> backup_file]

(* ------------------------------------------- _load_portfolio, save_portfolio *)
\* The cell to_csv writes for NaN and read_csv reads as NaN.
EmptyCell == [empty |-> TRUE]

\* DataFrame.to_csv(self.filepath, index_label='ticker'): every column of the
\* table is written, the derived ones too.
to_csv(df) ==
    [i \in 1..Len(df) |->
        [f \in DOMAIN df[i] |->
            IF f = "total_value_cad" /\ IsNaN(df[i][f]) THEN EmptyCell ELSE df[i][f]]]

\* pd.read_csv(data_filepath, index_col='ticker').
load_portfolio(file) ==
    [i \in 1..Len(file) |->
        [f \in DOMAIN file[i] |->
            IF f = "total_value_cad" /\ file[i][f] = EmptyCell THEN NaN ELSE file[i][f]]]

(* --------------------------------------------------- _calculate_total_value *)
\* total_value_cad of one row: set for USD and for CAD rows; a row of another
\* currency keeps what the column held, NaN when the table had no such column.
total_value_cad_of(r, total_value, exchange_rate) ==
    IF r.currency = "USD" THEN Fin(total_value * exchange_rate)
    ELSE IF r.currency = "CAD" THEN Fin(total_value * RateScale)
    ELSE IF "total_value_cad" \in DOMAIN r THEN r.total_value_cad
    ELSE NaN

total_value_of(r) == r.closing_price * r.quantity

calculate_total_value(portfolio, exchange_rate) ==
    [i \in 1..Len(portfolio) |->
        LET r == portfolio[i]
            tv == total_value_of(r)
        IN  With(With(r, "total_value", tv),
                 "total_value_cad", total_value_cad_of(r, tv, exchange_rate))]

(* ------------------------------------------------------------- _load_model *)
RECURSIVE SumAllocation(_)
SumAllocation(model) ==
    IF model = <<>> THEN 0 ELSE Head(model).target_allocation + SumAllocation(Tail(model))

\* total is the float64 sum of the column.  A sum of 0.995 or of 1.005 is no
\* float64: the sum the code holds lies below or above it, as the addends and
\* their roundings make it (0.172 + 0.823 is 0.9949999999999999, 0.058 + 0.937
\* is 0.9950000000000001).  The model files of ModelFiles whose float64 sum
\* lies above the half; the others of ModelFiles lie below it.
FloatSumAboveHalf ==
    { <<M("A", 58), M("D", 937)>>,
      <<M("A", 68), M("B", 937)>> }

\* round(total, 2) in hundredths.  Half way between two hundredths the
\* float64 sum decides, which is known for the files of ModelFiles only.
Round2(model) ==
    LET total == SumAllocation(model)
        unit == AllocScale \div 100
        q == total \div unit
        rem == total % unit
    IN  IF 2 * rem > unit THEN q + 1
        ELSE IF 2 * rem < unit THEN q
        ELSE IF model \in FloatSumAboveHalf THEN q + 1 ELSE q

\* The check of _load_model: TRUE when the file is accepted.
model_validated(model) == Round2(model) = 100

(* ------------------------------------------ _core_satellite_portfolio_split *)
\* portfolio.loc[model.index] raises KeyError when a model ticker is not held.
split_raises(portfolio, model_portfolio) ==
    ~ (IndexSet(model_portfolio) \subseteq IndexSet(portfolio))

\* The rows of the model's tickers, in the model's order.
core_rows(portfolio, model_portfolio) ==
    [i \in 1..Len(model_portfolio) |-> Loc(portfolio, model_portfolio[i].ticker)]

satellite_rows(portfolio, model_portfolio) ==
    SelectSeq(portfolio, LAMBDA r : r.ticker \notin IndexSet(model_portfolio))

\* actual_allocation and the merge with the model on the index.
core_satellite_portfolio_split(portfolio, model_portfolio) ==
    LET core == core_rows(portfolio, model_portfolio)
        total_core_portfolio_value == SumTotalValue(core)
    IN  [core |->
            [i \in 1..Len(core) |->
                With(With(core[i], "actual_allocation",
                          FDiv(core[i].total_value, total_core_portfolio_value)),
                     "target_allocation", model_portfolio[i].target_allocation)],
         satellite |-> satellite_rows(portfolio, model_portfolio)]

(* --------------------------------------------------------------- _rebalance *)
\* sort_values(by='rebalancing_cost', ascending=False): NaN rows last, equal
\* costs in their former order (tables this small are insertion-sorted).
RECURSIVE InsertByCost(_, _)
InsertByCost(r, sorted) ==
    IF sorted = <<>> THEN <<r>>
    ELSE IF Head(sorted).rebalancing_cost.num >= r.rebalancing_cost.num
         THEN <<Head(sorted)>> \o InsertByCost(r, Tail(sorted))
         ELSE <<r>> \o sorted

RECURSIVE SortFinite(_)
SortFinite(df) ==
    IF df = <<>> THEN <<>>
    ELSE InsertByCost(df[Len(df)], SortFinite(SubSeq(df, 1, Len(df) - 1)))

sort_by_rebalancing_cost(df) ==
    SortFinite(SelectSeq(df, LAMBDA r : ~ IsNaN(r.rebalancing_cost)))
        \o SelectSeq(df, LAMBDA r : IsNaN(r.rebalancing_cost))

\* Lines 132-134 in IEEE 754 doubles.  target_allocation * total can come out
\* above a product whose quotient by closing_price is exactly an integer, and
\* np.ceil then gives the next integer (0.14 * 50 is 7.000000000000001).  The
\* tuples <<target_allocation, total_core_portfolio_value, closing_price>> for
\* which it does, among the allocations of the model files that are accepted
\* and held, the prices 1, 2, 10, 20 and totals of up to 400; it never comes
\* out below.
FloatProductAbove ==
    { <<140, 50, 1>>, <<140, 100, 1>>, <<140, 100, 2>>, <<140, 150, 1>>,
      <<140, 200, 1>>, <<140, 200, 2>>, <<140, 300, 1>>, <<140, 300, 2>>,
      <<140, 350, 1>>, <<140, 400, 1>>, <<140, 400, 2>> }

product_excess(target_allocation, total_core_portfolio_value, closing_price) ==
    IF <<target_allocation, total_core_portfolio_value, closing_price>> \in FloatProductAbove
    THEN 1 ELSE 0

\* Lines 133-134: target_value / closing_price and np.ceil.
target_quantity_of(target_allocation, total_core_portfolio_value, closing_price) ==
    LET exact == FCeil(FDiv(target_allocation * total_core_portfolio_value,
                            AllocScale * closing_price))
    IN  IF IsFinite(exact)
        THEN Fin(exact.num + product_excess(target_allocation,
                                            total_core_portfolio_value, closing_price))
        ELSE exact

\* target_value is the product to the nearest thousandth.
rebalance_row(r, total_core_portfolio_value) ==
    LET target_value == r.target_allocation * total_core_portfolio_value
        target_quantity == target_quantity_of(r.target_allocation,
                                total_core_portfolio_value, r.closing_price)
        rebalance_quantity == FSubInt(target_quantity, r.quantity)
    IN  With(With(With(With(r,
            "target_value", target_value),
            "target_quantity", target_quantity),
            "rebalance_quantity", rebalance_quantity),
            "rebalancing_cost", FMulInt(rebalance_quantity, r.closing_price))

rebalance(core_portfolio) ==
    LET total_core_portfolio_value == SumTotalValue(core_portfolio)
    IN  sort_by_rebalancing_cost(
            [i \in 1..Len(core_portfolio) |->
                rebalance_row(core_portfolio[i], total_core_portfolio_value)])

(* ------------------------------------------------------- _rebalance_no_sell *)
\* core_portfolio.rebalancing_cost.min(): NaN is skipped.
RECURSIVE MinCost(_)
MinCost(costs) ==
    IF Len(costs) = 1 THEN Head(costs)
    ELSE LET m == MinCost(Tail(costs))
         IN  IF Head(costs) <= m THEN Head(costs) ELSE m

FiniteCosts(df) ==
    LET rows == SelectSeq(df, LAMBDA r : ~ IsNaN(r.rebalancing_cost))
    IN  [i \in 1..Len(rows) |-> rows[i].rebalancing_cost.num]

\* The rows whose rebalancing_cost equals the minimum, in row order; empty when
\* every cost is NaN or the table is empty.
best_stock(core_portfolio) ==
    IF FiniteCosts(core_portfolio) = <<>> THEN <<>>
    ELSE SelectSeq(core_portfolio,
            LAMBDA r : /\ ~ IsNaN(r.rebalancing_cost)
                       /\ r.rebalancing_cost.num = MinCost(FiniteCosts(core_portfolio)))

\* target_allocation * (anchor.total_value / anchor.target_allocation)
fractional_value_no_sell_of(r, anchor) ==
    FDiv(r.target_allocation * anchor.total_value, anchor.target_allocation)

\* fractional_value_no_sell / closing_price, before the ceil.
target_quantity_no_sell_of(r, anchor) ==
    LET f == fractional_value_no_sell_of(r, anchor)
    IN  FDiv(f.num, f.den * r.closing_price)

\* Lines 221-225 in IEEE 754 doubles.  target_allocation * (total_value /
\* target_allocation) / closing_price can come out one unit in the last place
\* above a quotient that is exactly an integer, and np.ceil then gives the next
\* integer.  The tuples <<target_allocation, anchor total_value, anchor
\* target_allocation, closing_price>> for which it does, among the pairs of
\* allocations of one model file that is accepted and held, the prices 1, 2,
\* 10, 20 and anchor values of up to sixty units at those prices; it never
\* comes out below.
FloatRoundsAbove ==
    { <<100, 21, 700, 1>>, <<100, 42, 700, 1>>, <<100, 42, 700, 2>>, <<100, 84, 700, 1>>,
      <<100, 84, 700, 2>>, <<100, 350, 700, 1>>, <<100, 350, 700, 2>>, <<100, 350, 700, 10>>,
      <<100, 700, 700, 1>>, <<100, 700, 700, 2>>, <<100, 700, 700, 10>>, <<100, 700, 700, 20>>,
      <<140, 43, 860, 1>>, <<140, 51, 140, 1>>, <<140, 86, 860, 1>>, <<140, 86, 860, 2>>,
      <<140, 102, 140, 1>>, <<140, 102, 140, 2>>, <<200, 21, 700, 1>>, <<200, 21, 700, 2>>,
      <<200, 42, 700, 1>>, <<200, 42, 700, 2>>, <<200, 84, 700, 1>>, <<200, 84, 700, 2>>,
      <<200, 350, 700, 1>>, <<200, 350, 700, 2>>, <<200, 350, 700, 10>>, <<200, 350, 700, 20>>,
      <<200, 700, 700, 1>>, <<200, 700, 700, 2>>, <<200, 700, 700, 10>>, <<200, 700, 700, 20>>,
      <<404, 210, 404, 1>>, <<404, 210, 404, 2>>, <<404, 210, 404, 10>>, <<404, 420, 404, 1>>,
      <<404, 420, 404, 2>>, <<404, 420, 404, 10>>, <<404, 420, 404, 20>>, <<404, 840, 404, 1>>,
      <<404, 840, 404, 2>>, <<404, 840, 404, 10>>, <<404, 840, 404, 20>>, <<600, 7, 600, 1>>,
      <<600, 11, 600, 1>>, <<600, 14, 600, 1>>, <<600, 14, 600, 2>>, <<600, 22, 600, 1>>,
      <<600, 22, 600, 2>>, <<600, 25, 600, 1>>, <<600, 28, 600, 1>>, <<600, 28, 600, 2>>,
      <<600, 41, 600, 1>>, <<600, 44, 600, 1>>, <<600, 44, 600, 2>>, <<600, 47, 600, 1>>,
      <<600, 50, 600, 1>>, <<600, 50, 600, 2>>, <<600, 50, 600, 10>>, <<600, 53, 600, 1>>,
      <<600, 56, 600, 1>>, <<600, 56, 600, 2>>, <<600, 82, 600, 1>>, <<600, 82, 600, 2>>,
      <<600, 88, 600, 1>>, <<600, 88, 600, 2>>, <<600, 94, 600, 1>>, <<600, 94, 600, 2>>,
      <<600, 100, 600, 1>>, <<600, 100, 600, 2>>, <<600, 100, 600, 10>>, <<600, 100, 600, 20>>,
      <<600, 106, 600, 1>>, <<600, 106, 600, 2>>, <<600, 112, 600, 1>>, <<600, 112, 600, 2>>,
      <<600, 170, 600, 1>>, <<600, 170, 600, 2>>, <<600, 170, 600, 10>>, <<600, 200, 600, 1>>,
      <<600, 200, 600, 2>>, <<600, 200, 600, 10>>, <<600, 200, 600, 20>>, <<600, 230, 600, 1>>,
      <<600, 230, 600, 2>>, <<600, 230, 600, 10>>, <<600, 310, 600, 1>>, <<600, 310, 600, 2>>,
      <<600, 310, 600, 10>>, <<600, 340, 600, 1>>, <<600, 340, 600, 2>>, <<600, 340, 600, 10>>,
      <<600, 340, 600, 20>>, <<600, 370, 600, 1>>, <<600, 370, 600, 2>>, <<600, 370, 600, 10>>,
      <<600, 400, 600, 1>>, <<600, 400, 600, 2>>, <<600, 400, 600, 10>>, <<600, 400, 600, 20>>,
      <<600, 430, 600, 1>>, <<600, 430, 600, 2>>, <<600, 430, 600, 10>>, <<600, 460, 600, 1>>,
      <<600, 460, 600, 2>>, <<600, 460, 600, 10>>, <<600, 460, 600, 20>>, <<600, 620, 600, 1>>,
      <<600, 620, 600, 2>>, <<600, 620, 600, 10>>, <<600, 620, 600, 20>>, <<600, 680, 600, 1>>,
      <<600, 680, 600, 2>>, <<600, 680, 600, 10>>, <<600, 680, 600, 20>>, <<600, 740, 600, 1>>,
      <<600, 740, 600, 2>>, <<600, 740, 600, 10>>, <<600, 740, 600, 20>>, <<600, 800, 600, 1>>,
      <<600, 800, 600, 2>>, <<600, 800, 600, 10>>, <<600, 800, 600, 20>>, <<600, 860, 600, 1>>,
      <<600, 860, 600, 2>>, <<600, 860, 600, 10>>, <<600, 860, 600, 20>>, <<600, 920, 600, 1>>,
      <<600, 920, 600, 2>>, <<600, 920, 600, 10>>, <<600, 920, 600, 20>>, <<700, 27, 700, 1>>,
      <<700, 31, 700, 1>>, <<700, 47, 700, 1>>, <<700, 54, 700, 1>>, <<700, 54, 700, 2>>,
      <<700, 62, 700, 1>>, <<700, 62, 700, 2>>, <<700, 94, 700, 1>>, <<700, 94, 700, 2>>,
      <<700, 108, 700, 1>>, <<700, 108, 700, 2>>, <<700, 390, 700, 1>>, <<700, 390, 700, 2>>,
      <<700, 390, 700, 10>>, <<700, 510, 700, 1>>, <<700, 510, 700, 2>>, <<700, 510, 700, 10>>,
      <<700, 780, 700, 1>>, <<700, 780, 700, 2>>, <<700, 780, 700, 10>>, <<700, 780, 700, 20>>,
      <<700, 1020, 700, 1>>, <<700, 1020, 700, 2>>, <<700, 1020, 700, 10>>, <<700, 1020, 700, 20>>,
      <<860, 31, 860, 1>>, <<860, 57, 860, 1>>, <<860, 62, 860, 1>>, <<860, 62, 860, 2>>,
      <<860, 114, 860, 1>>, <<860, 114, 860, 2>>, <<860, 450, 860, 1>>, <<860, 450, 860, 2>>,
      <<860, 450, 860, 10>>, <<860, 490, 860, 1>>, <<860, 490, 860, 2>>, <<860, 490, 860, 10>>,
      <<860, 900, 860, 1>>, <<860, 900, 860, 2>>, <<860, 900, 860, 10>>, <<860, 900, 860, 20>>,
      <<860, 980, 860, 1>>, <<860, 980, 860, 2>>, <<860, 980, 860, 10>>, <<860, 980, 860, 20>> }

float_excess(r, anchor) ==
    IF <<r.target_allocation, anchor.total_value, anchor.target_allocation,
         r.closing_price>> \in FloatRoundsAbove
    THEN 1 ELSE 0

\* Lines 223-224: the two float columns, set in place before the cast.
no_sell_float_columns(core_portfolio, anchor) ==
    [i \in 1..Len(core_portfolio) |->
        With(With(core_portfolio[i],
            "fractional_value_no_sell", fractional_value_no_sell_of(core_portfolio[i], anchor)),
            "target_quantity_no_sell", target_quantity_no_sell_of(core_portfolio[i], anchor))]

\* Lines 225-228: ceil, the cast to int, and the columns derived from it.
no_sell_row(r, anchor) ==
    LET target_quantity_no_sell == FCeil(target_quantity_no_sell_of(r, anchor)).num
                                        + float_excess(r, anchor)
        rebalance_quantity_no_sell == target_quantity_no_sell - r.quantity
    IN  With(With(With(With(r,
            "fractional_value_no_sell", fractional_value_no_sell_of(r, anchor)),
            "target_quantity_no_sell", target_quantity_no_sell),
            "rebalance_quantity_no_sell", rebalance_quantity_no_sell),
            "rebalancing_cost_no_sell", rebalance_quantity_no_sell * r.closing_price)

\* The table is changed in place; the sort of line 229 is not (its result is
\* dropped).  raises: "IndexError" from best_stock.index[0] on an empty
\* selection (nothing is changed), "ValueError" from astype(int) on inf or NaN
\* (the two float columns are already set).
rebalance_no_sell(core_portfolio) ==
    LET best == best_stock(core_portfolio)
    IN  IF best = <<>> THEN [raises |-> "IndexError", df |-> core_portfolio]
        ELSE IF \E i \in 1..Len(core_portfolio) :
                    ~ IsFinite(target_quantity_no_sell_of(core_portfolio[i], best[1]))
        THEN [raises |-> "ValueError",
              df |-> no_sell_float_columns(core_portfolio, best[1])]
        ELSE [raises |-> "none",
              df |-> [i \in 1..Len(core_portfolio) |-> no_sell_row(core_portfolio[i], best[1])]]

(* ----------------------------------------------------- spend_money_scenario *)
\* The affordability filter of lines 277 and 291.
\* A filter that keeps every row.
affordable_any(r, money_to_spend) == TRUE

affordable(r, money_to_spend) == r.closing_price <= money_to_spend

affordable_rows(scenario_portfolio, money_to_spend) ==
    SelectSeq(scenario_portfolio, LAMBDA r : affordable(r, money_to_spend))

\* scenario_portfolio['rebalancing_cost'].max(): NaN is skipped.
RECURSIVE MaxCost(_)
MaxCost(costs) ==
    IF Len(costs) = 1 THEN Head(costs)
    ELSE LET m == MaxCost(Tail(costs))
         IN  IF Head(costs) >= m THEN Head(costs) ELSE m

\* The rows whose rebalancing_cost equals the minimum instead of the maximum.
most_overweight(scenario_portfolio) ==
    IF FiniteCosts(scenario_portfolio) = <<>> THEN <<>>
    ELSE SelectSeq(scenario_portfolio,
            LAMBDA r : /\ ~ IsNaN(r.rebalancing_cost)
                       /\ r.rebalancing_cost.num = MinCost(FiniteCosts(scenario_portfolio)))

\* The rows whose rebalancing_cost equals the maximum, in row order.
most_underweight(scenario_portfolio) ==
    IF FiniteCosts(scenario_portfolio) = <<>> THEN <<>>
    ELSE SelectSeq(scenario_portfolio,
            LAMBDA r : /\ ~ IsNaN(r.rebalancing_cost)
                       /\ r.rebalancing_cost.num = MaxCost(FiniteCosts(scenario_portfolio)))

\* scenario_portfolio.loc[ticker_to_buy, 'quantity'] += 1
buy_one(scenario_portfolio, ticker_to_buy) ==
    [i \in 1..Len(scenario_portfolio) |->
        IF scenario_portfolio[i].ticker = ticker_to_buy
        THEN [scenario_portfolio[i] EXCEPT !.quantity = @ + 1]
        ELSE scenario_portfolio[i]]

\* A purchase that is not paid for.
money_after_purchase_unpaid(money_to_spend, purchase_cost) == money_to_spend

money_after_purchase(money_to_spend, purchase_cost) == money_to_spend - purchase_cost

\* storage_dataframe.loc[ticker_to_buy, ...] += ...
store_purchase(storage_dataframe, ticker_to_buy, purchase_cost) ==
    [i \in 1..Len(storage_dataframe) |->
        IF storage_dataframe[i].ticker = ticker_to_buy
        THEN [storage_dataframe[i] EXCEPT !.quantity = @ + 1,
                                          !.purchase_cost = @ + purchase_cost]
        ELSE storage_dataframe[i]]

\* Lines 270-272: one row per ticker of the copy, nothing bought.
new_storage_dataframe(scenario_portfolio) ==
    [i \in 1..Len(scenario_portfolio) |->
        [ticker |-> scenario_portfolio[i].ticker, quantity |-> 0, purchase_cost |-> 0]]

\* Line 293: purchase_cost / quantity, NaN (0.0 / 0) for a ticker never bought.
with_unit_cost(storage_dataframe) ==
    [i \in 1..Len(storage_dataframe) |->
        With(storage_dataframe[i], "unit_cost",
             FDiv(storage_dataframe[i].purchase_cost, storage_dataframe[i].quantity))]

\* One pass of the loop body, lines 275-291, on the method's locals.  raises:
\* "IndexError" from .index[0] when no affordable row has a cost to compare;
\* whatever _rebalance_no_sell raises, after the purchase was taken from
\* money_to_spend and before it is stored.
spend_locals(scenario_portfolio, money_to_spend, storage_dataframe, exchange_rate) ==
    LET filtered == affordable_rows(scenario_portfolio, money_to_spend)
        candidates == most_underweight(filtered)
    IN  IF candidates = <<>>
        THEN [raises |-> "IndexError", bought |-> "",
              scenario_portfolio |-> filtered, money_to_spend |-> money_to_spend,
              storage_dataframe |-> storage_dataframe]
        ELSE
        LET ticker_to_buy == candidates[1].ticker
            purchase_cost == candidates[1].closing_price
            left == money_after_purchase(money_to_spend, purchase_cost)
            no_sell == rebalance_no_sell(rebalance(calculate_total_value(
                            buy_one(filtered, ticker_to_buy), exchange_rate)))
        IN  IF no_sell.raises # "none"
            THEN [raises |-> no_sell.raises, bought |-> ticker_to_buy,
                  scenario_portfolio |-> no_sell.df, money_to_spend |-> left,
                  storage_dataframe |-> storage_dataframe]
            ELSE [raises |-> "none", bought |-> ticker_to_buy,
                  scenario_portfolio |-> affordable_rows(no_sell.df, left),
                  money_to_spend |-> left,
                  storage_dataframe |->
                      store_purchase(storage_dataframe, ticker_to_buy, purchase_cost)]

\* The pass written through to self.core_portfolio: the purchase made on the
\* object's table instead of on the copy.
spend_iteration_in_place(core_portfolio, scenario_portfolio, money_to_spend, storage_dataframe, exchange_rate) ==
    LET locals == spend_locals(scenario_portfolio, money_to_spend,
                               storage_dataframe, exchange_rate)
    IN  [core_portfolio |-> buy_one(core_portfolio, locals.bought), locals |-> locals]

\* What one pass does to self.core_portfolio and to the locals: the body works on
\* scenario_portfolio, a copy (line 268) that each filter copies again.
spend_iteration(core_portfolio, scenario_portfolio, money_to_spend, storage_dataframe, exchange_rate) ==
    [core_portfolio |-> core_portfolio,
     locals |-> spend_locals(scenario_portfolio, money_to_spend,
                             storage_dataframe, exchange_rate)]

(* ------------------------------------------------------------------ inputs *)
\* data/portfolio_data.csv: holdings files, among them one with a closing price
\* of 0, one with a currency that is neither USD nor CAD, and one of two
\* holdings, 10 units at 10 and 5 units at 20, and one whose core value times
\* an allocation of 0.14 is no whole number in doubles.
DataFiles ==
    { <<H("A", 0, 1, "USD"), H("B", 2, 1, "CAD"), H("C", 2, 1, "CAD")>>,
      <<H("A", 1, 2, "USD"), H("B", 1, 1, "CAD"), H("C", 0, 1, "USD")>>,
      <<H("A", 1, 1, "USD"), H("B", 1, 0, "CAD"), H("C", 1, 1, "CAD")>>,
      <<H("A", 2, 1, "USD"), H("B", 0, 1, "EUR"), H("C", 1, 2, "CAD")>>,
      <<H("A", 10, 10, "USD"), H("B", 5, 20, "CAD")>>,
      <<H("A", 50, 1, "USD"), H("B", 0, 1, "CAD")>> }

\* data/model_portfolio.csv: allocations in units of 1/AllocScale.  The sums
\* are 1, sums that round to 1, sums that do not, and sums of 0.995 and of
\* 1.005 whose doubles lie on either side.
ModelFiles ==
    { <<M("A", 600), M("B", 400)>>,
      <<M("A", 700), M("B", 200), M("C", 100)>>,
      <<M("C", 250), M("A", 250), M("B", 500)>>,
      <<M("A", 1000)>>,
      <<M("A", 1000), M("B", 0)>>,
      <<M("A", 600), M("B", 404)>>,
      <<M("A", 600), M("B", 394)>>,
      <<M("A", 600), M("B", 406)>>,
      <<M("A", 500), M("B", 400)>>,
      <<M("A", 500), M("D", 500)>>,
      <<M("A", 172), M("B", 823)>>,
      <<M("A", 58), M("D", 937)>>,
      <<M("A", 68), M("B", 937)>>,
      <<M("A", 605), M("D", 400)>>,
      <<M("A", 140), M("B", 860)>> }

\* What requests.get and .json() give get_exchange_rate: an answer with the
\* rates (in units of 1/RateScale), one where USD is 0, an answer without
\* 'rates' (the API's error document), the builtin TimeoutError, or one of the
\* exceptions of requests, which are no TimeoutError.
ApiAnswers ==
    { [outcome |-> "rates", cad |-> 270, usd |-> 200],
      [outcome |-> "rates", cad |-> 270, usd |-> 0],
      [outcome |-> "no rates", cad |-> 0, usd |-> 0],
      [outcome |-> "TimeoutError", cad |-> 0, usd |-> 0],
      [outcome |-> "requests.Timeout", cad |-> 0, usd |-> 0],
      [outcome |-> "requests.ConnectionError", cad |-> 0, usd |-> 0] }

\* data/exchange_rate.txt before the first call: absent, a rate, or empty.
BackupFiles ==
    { [exists |-> FALSE, text |-> ""],
      [exists |-> TRUE, text |-> "1.5"],
      [exists |-> TRUE, text |-> ""] }

\* The tickers update_quantity is called with: a held one and one that is not.
Tickers == {"B", "Z"}

\* The amounts spend_money_scenario is called with.
Amounts == (-1)..MaxCash

(* ------------------------------------------------------------------- state *)
VARIABLES
    data_file,                  \* the holdings file read by _load_portfolio
    model_file,                 \* the model file read by _load_model
    backup_file,                \* data/exchange_rate.txt
    phase,                      \* "new", "ready" (constructed), "failed" (__init__ raised)
    exchange_rate,              \* self.exchange_rate
    portfolio,                  \* self.portfolio
    model_portfolio,            \* self.model_portfolio
    core_portfolio,             \* self.core_portfolio
    satellite_portfolio,        \* self.satellite_portfolio
    raised,                     \* the exception the last call raised, "none" if none
    raised_by,                  \* the call it came out of, "none" if none
    dropped_no_sell,            \* the last call was an update_quantity that found no-sell columns
    pc,                         \* spend_money_scenario: "idle", "loop", "done", "returned", "aborted"
    original_money_to_spend,    \* locals of spend_money_scenario
    money_to_spend,
    scenario_portfolio,
    storage_dataframe,
    iterations                  \* passes of the loop body begun

self_vars == <<exchange_rate, portfolio, model_portfolio, core_portfolio, satellite_portfolio>>
local_vars == <<pc, original_money_to_spend, money_to_spend, scenario_portfolio,
                storage_dataframe, iterations>>
input_vars == <<data_file, model_file, backup_file>>
vars == <<input_vars, phase, self_vars, raised, raised_by, dropped_no_sell, local_vars>>

NoSellColumns == {"fractional_value_no_sell", "target_quantity_no_sell",
                  "rebalance_quantity_no_sell", "rebalancing_cost_no_sell"}

HasNoSellColumns(df) == \E i \in 1..Len(df) : DOMAIN df[i] \cap NoSellColumns # {}

NoLocals ==
    /\ pc = "idle"
    /\ original_money_to_spend = 0
    /\ money_to_spend = 0
    /\ scenario_portfolio = <<>>
    /\ storage_dataframe = <<>>
    /\ iterations = 0

Init ==
    /\ data_file \in DataFiles
    /\ model_file \in ModelFiles
    /\ backup_file \in BackupFiles
    /\ phase = "new"
    /\ exchange_rate = 0
    /\ portfolio = <<>>
    /\ model_portfolio = <<>>
    /\ core_portfolio = <<>>
    /\ satellite_portfolio = <<>>
    /\ raised = "none"
    /\ raised_by = "none"
    /\ dropped_no_sell = FALSE
    /\ NoLocals

(* ---------------------------------------------------------------- __init__ *)
\* The exception __init__ ends with and the call of __init__ it comes out of,
\* "none" when the object is constructed.  rate is the answer of line 53.
init_raises(file, model, rate) ==
    IF rate.raises # "none"
    THEN [raises |-> rate.raises, by |-> "get_exchange_rate"]
    ELSE IF ~ model_validated(model)
    THEN [raises |-> "ValueError", by |-> "_load_model"]
    ELSE IF split_raises(calculate_total_value(load_portfolio(file), rate.rate), model)
    THEN [raises |-> "KeyError", by |-> "_core_satellite_portfolio_split"]
    ELSE [raises |-> "none", by |-> "none"]

\* Portfolio(data_filepath, update_prices=False); a price refresh is a holdings
\* file with other closing prices.  The call may come at any time the program
\* is not inside a method, and the object it makes is the one followed from
\* then on; when it raises there is no object.
Construct ==
    /\ pc = "idle"
    /\ \E api \in ApiAnswers :
        LET rate == get_exchange_rate(api, backup_file)
            result == init_raises(data_file, model_file, rate)
            valued == calculate_total_value(load_portfolio(data_file), rate.rate)
            split == core_satellite_portfolio_split(valued, model_file)
        IN  /\ raised' = result.raises
            /\ raised_by' = result.by
            /\ backup_file' = rate.backup_file
            /\ IF result.raises = "none"
               THEN /\ phase' = "ready"
                    /\ exchange_rate' = rate.rate
                    /\ portfolio' = valued
                    /\ model_portfolio' = model_file
                    /\ core_portfolio' = rebalance(split.core)
                    /\ satellite_portfolio' = split.satellite
               ELSE /\ phase' = "failed"
                    /\ exchange_rate' = 0
                    /\ portfolio' = <<>>
                    /\ model_portfolio' = <<>>
                    /\ core_portfolio' = <<>>
                    /\ satellite_portfolio' = <<>>
    /\ dropped_no_sell' = FALSE
    /\ UNCHANGED <<data_file, model_file, local_vars>>

(* ---------------------------------------------------------- save_portfolio *)
\* Lines 100-105: the holdings file is overwritten with self.portfolio.
SavePortfolio ==
    /\ phase = "ready"
    /\ pc = "idle"
    /\ data_file' = to_csv(portfolio)
    /\ raised' = "none"
    /\ raised_by' = "none"
    /\ dropped_no_sell' = FALSE
    /\ UNCHANGED <<model_file, backup_file, phase, self_vars, local_vars>>

(* --------------------------------------------------------- update_quantity *)
set_quantity(df, ticker, quantity) ==
    [i \in 1..Len(df) |->
        IF df[i].ticker = ticker THEN [df[i] EXCEPT !.quantity = quantity] ELSE df[i]]

\* An update that patches the holdings and keeps the derived tables.
update_quantity_patched(self_portfolio, self_core, self_satellite, model, rate, ticker, quantity) ==
    [portfolio |-> IF ticker \in IndexSet(self_portfolio)
                   THEN calculate_total_value(
                            set_quantity(self_portfolio, ticker, quantity), rate)
                   ELSE self_portfolio,
     core_portfolio |-> self_core,
     satellite_portfolio |-> self_satellite]

\* self after update_quantity(ticker, quantity): the three tables.
update_quantity(self_portfolio, self_core, self_satellite, model, rate, ticker, quantity) ==
    IF ticker \in IndexSet(self_portfolio)
    THEN LET valued == calculate_total_value(
                            set_quantity(self_portfolio, ticker, quantity), rate)
             split == core_satellite_portfolio_split(valued, model)
         IN  [portfolio |-> valued,
              core_portfolio |-> rebalance(split.core),
              satellite_portfolio |-> split.satellite]
    ELSE [portfolio |-> self_portfolio,
          core_portfolio |-> self_core,
          satellite_portfolio |-> self_satellite]

UpdateQuantity ==
    /\ phase = "ready"
    /\ pc = "idle"
    /\ \E ticker \in Tickers, quantity \in 0..MaxQty :
        LET after == update_quantity(portfolio, core_portfolio, satellite_portfolio,
                                     model_portfolio, exchange_rate, ticker, quantity)
        IN  /\ portfolio' = after.portfolio
            /\ core_portfolio' = after.core_portfolio
            /\ satellite_portfolio' = after.satellite_portfolio
    /\ raised' = "none"
    /\ raised_by' = "none"
    /\ dropped_no_sell' = (portfolio' # portfolio /\ HasNoSellColumns(core_portfolio))
    /\ UNCHANGED <<input_vars, phase, exchange_rate, model_portfolio, local_vars>>

(* ---------------------------------------------------------- no_sell_report *)
\* self.core_portfolio is changed in place, also when the cast raises; the
\* report itself is a sorted view that is printed.
NoSellReport ==
    /\ phase = "ready"
    /\ pc = "idle"
    /\ LET result == rebalance_no_sell(core_portfolio)
       IN  /\ core_portfolio' = result.df
           /\ raised' = result.raises
           /\ raised_by' = IF result.raises = "none" THEN "none" ELSE "_rebalance_no_sell"
    /\ dropped_no_sell' = FALSE
    /\ UNCHANGED <<input_vars, phase, exchange_rate, portfolio, model_portfolio,
                   satellite_portfolio, local_vars>>

(* ---------------------------------------------------- spend_money_scenario *)
\* Lines 262-272: the guard, the copy and the empty purchase plan.
SpendStart ==
    /\ phase = "ready"
    /\ pc = "idle"
    /\ \E amount \in Amounts :
        /\ original_money_to_spend' = amount
        /\ money_to_spend' = amount
        /\ IF amount <= 0
           THEN /\ pc' = "returned"
                /\ UNCHANGED <<scenario_portfolio, storage_dataframe>>
           ELSE /\ pc' = "loop"
                /\ scenario_portfolio' = core_portfolio
                /\ storage_dataframe' = new_storage_dataframe(core_portfolio)
    /\ iterations' = 0
    /\ raised' = "none"
    /\ raised_by' = "none"
    /\ dropped_no_sell' = FALSE
    /\ UNCHANGED <<input_vars, phase, self_vars>>

\* One pass of the while loop.
SpendIter ==
    /\ pc = "loop"
    /\ Len(scenario_portfolio) > 0
    /\ LET step == spend_iteration(core_portfolio, scenario_portfolio, money_to_spend,
                                   storage_dataframe, exchange_rate)
       IN  /\ core_portfolio' = step.core_portfolio
           /\ scenario_portfolio' = step.locals.scenario_portfolio
           /\ money_to_spend' = step.locals.money_to_spend
           /\ storage_dataframe' = step.locals.storage_dataframe
           /\ raised' = step.locals.raises
           /\ raised_by' = IF step.locals.raises = "none" THEN "none"
                            ELSE IF step.locals.bought = "" THEN "spend_money_scenario"
                            ELSE "_rebalance_no_sell"
           /\ pc' = IF step.locals.raises = "none" THEN "loop" ELSE "aborted"
    /\ iterations' = iterations + 1
    /\ UNCHANGED <<input_vars, phase, exchange_rate, portfolio, model_portfolio,
                   satellite_portfolio, dropped_no_sell, original_money_to_spend>>

\* The loop condition fails: lines 293-296, the unit costs and the printed plan.
SpendExit ==
    /\ pc = "loop"
    /\ Len(scenario_portfolio) = 0
    /\ storage_dataframe' = with_unit_cost(storage_dataframe)
    /\ pc' = "done"
    /\ UNCHANGED <<input_vars, phase, self_vars, raised, raised_by, dropped_no_sell,
                   original_money_to_spend, money_to_spend, scenario_portfolio, iterations>>

\* The method returns or its exception leaves it: the locals are gone.
SpendReturn ==
    /\ pc \in {"done", "returned", "aborted"}
    /\ pc' = "idle"
    /\ original_money_to_spend' = 0
    /\ money_to_spend' = 0
    /\ scenario_portfolio' = <<>>
    /\ storage_dataframe' = <<>>
    /\ iterations' = 0
    /\ UNCHANGED <<input_vars, phase, self_vars, raised, raised_by, dropped_no_sell>>

Next ==
    \/ Construct
    \/ SavePortfolio
    \/ UpdateQuantity
    \/ NoSellReport
    \/ SpendStart
    \/ SpendIter
    \/ SpendExit
    \/ SpendReturn

Spec == Init /\ [][Next]_vars

\* Line 274: control that is in the while loop goes on, to one more pass or to
\* the exit.  From pc = "loop" the only steps of Next are SpendIter and
\* SpendExit, one of which is always possible, so this is the step
\* SpendIter \/ SpendExit seen on pc and iterations.
while_advances ==
    /\ pc = "loop"
    /\ \/ iterations' = iterations + 1 /\ pc' \in {"loop", "aborted"}
       \/ iterations' = iterations /\ pc' = "done"

\* The method is one thread of straight-line code: once called it keeps
\* running, so the loop is not left waiting at its head for ever.
FairSpec == Spec /\ WF_<<pc, iterations>>(while_advances)

(* ================================================================== claims *)
RECURSIVE SumPurchaseCost(_)
SumPurchaseCost(df) ==
    IF df = <<>> THEN 0 ELSE Head(df).purchase_cost + SumPurchaseCost(Tail(df))

RECURSIVE MinPrice(_)
MinPrice(df) ==
    IF Len(df) = 1 THEN Head(df).closing_price
    ELSE LET m == MinPrice(Tail(df))
         IN  IF Head(df).closing_price <= m THEN Head(df).closing_price ELSE m

AllPricesPositive(df) == \A i \in 1..Len(df) : df[i].closing_price > 0

Constructed == phase = "ready"

\* __init__ ended with the ValueError of _load_model.
ModelRejected == phase = "failed" /\ raised = "ValueError" /\ raised_by = "_load_model"

\* The last Portfolio(...) got its exchange rate, so that it went on to the
\* model file and the split.
RateObtained == phase # "new" /\ raised_by # "get_exchange_rate"

NoSellPlanned(df) ==
    /\ df # <<>>
    /\ \A i \in 1..Len(df) : "rebalance_quantity_no_sell" \in DOMAIN df[i]

(* C1: after rebalance and rebalance_no_sell on a core set of more than one    *)
(* ticker with positive prices, non-negative quantities and allocations that   *)
(* sum to 1, every core row has rebalance_quantity_no_sell >= 0.               *)
C1_NoSellNeverSells ==
    ( /\ Constructed
      /\ Len(core_portfolio) > 1
      /\ AllPricesPositive(core_portfolio)
      /\ SumAllocation(model_portfolio) = AllocScale
      /\ NoSellPlanned(core_portfolio) )
    => \A i \in 1..Len(core_portfolio) : core_portfolio[i].rebalance_quantity_no_sell >= 0

C2_Case ==
    /\ pc \in {"loop", "done", "aborted"}
    /\ core_portfolio # <<>>
    /\ AllPricesPositive(core_portfolio)
    /\ \E i \in 1..Len(core_portfolio) :
            core_portfolio[i].closing_price <= original_money_to_spend

C2_IterationBound ==
    C2_Case => iterations * MinPrice(core_portfolio) <= original_money_to_spend

(* C2: for cash > 0 and a core set with all prices > 0 and a row priced <= cash *)
(* the loop of spend_money_scenario is left, and the passes it makes, each a    *)
(* purchase, number at most cash / min(closing_price over the core set).        *)
C2_SpendTerminates ==
    /\ [] C2_IterationBound
    /\ (C2_Case /\ pc = "loop") ~> (pc \in {"done", "aborted"})

C2_Witness ==
    /\ C2_Case
    /\ pc = "done"
    /\ iterations >= 2
    /\ iterations * MinPrice(core_portfolio) = original_money_to_spend

(* C3: when no core row is priced <= the cash given (cash > 0), the simulation *)
(* ends without error and with an empty purchase plan.                         *)
C3_NothingAffordableEndsNormally ==
    ( /\ pc \in {"done", "aborted"}
      /\ original_money_to_spend > 0
      /\ \A i \in 1..Len(core_portfolio) :
            core_portfolio[i].closing_price > original_money_to_spend )
    => /\ pc = "done"
       /\ raised = "none"
       /\ \A i \in 1..Len(storage_dataframe) :
            storage_dataframe[i].quantity = 0 /\ storage_dataframe[i].purchase_cost = 0

(* C4: at the head of every pass of the spend loop and at its end, remaining   *)
(* cash is >= 0, the purchase costs stored add up to the original cash minus   *)
(* the remaining cash, and every row of the working set holds the quantity it  *)
(* started with plus the units bought of it, so never less.                    *)
C4_BudgetInvariant ==
    /\ pc \in {"loop", "done", "aborted"} => money_to_spend >= 0
    /\ pc \in {"loop", "done"} =>
        /\ SumPurchaseCost(storage_dataframe) = original_money_to_spend - money_to_spend
        /\ SumPurchaseCost(storage_dataframe) <= original_money_to_spend
        /\ \A i \in 1..Len(scenario_portfolio) :
            LET r == scenario_portfolio[i]
            IN  /\ r.quantity >= Loc(core_portfolio, r.ticker).quantity
                /\ r.quantity = Loc(core_portfolio, r.ticker).quantity
                                    + Loc(storage_dataframe, r.ticker).quantity

C4_Witness ==
    /\ pc = "loop"
    /\ 0 < money_to_spend
    /\ money_to_spend < original_money_to_spend
    /\ \E i \in 1..Len(scenario_portfolio) :
        scenario_portfolio[i].quantity
            > Loc(core_portfolio, scenario_portfolio[i].ticker).quantity

(* C5: no step of spend_money_scenario, for cash positive, zero or negative,   *)
(* and also when it aborts with an error, changes self.portfolio,              *)
(* self.core_portfolio or self.satellite_portfolio.                            *)
C5_SpendIsolation ==
    [][ (pc # "idle" \/ pc' # "idle")
            => UNCHANGED <<portfolio, core_portfolio, satellite_portfolio>> ]_vars

C5_Witness ==
    /\ pc = "aborted"
    /\ raised = "ValueError"
    /\ money_to_spend < original_money_to_spend

(* C6: for any holdings and any model, whether or not every model ticker is    *)
(* held, the split succeeds with core = the holdings whose ticker is a model   *)
(* key and satellite = the other holdings.                                     *)
C6_SplitIsInnerJoin ==
    (RateObtained /\ ~ ModelRejected) =>
        /\ Constructed
        /\ IndexSet(core_portfolio) = IndexSet(data_file) \cap IndexSet(model_file)
        /\ IndexSet(satellite_portfolio) = IndexSet(data_file) \ IndexSet(model_file)

\* total, in units of 1/AllocScale, is 1.00 when rounded to two decimals,
\* whichever way a sum half way between two hundredths is rounded.
RoundsToOne(total) == 2 * total >= 2 * AllocScale - AllocScale \div 100
                      /\ 2 * total < 2 * AllocScale + AllocScale \div 100

\* total rounded to two decimals is another number than 1.00, whichever way.
RoundsAway(total) == 2 * total < 2 * AllocScale - AllocScale \div 100
                     \/ 2 * total > 2 * AllocScale + AllocScale \div 100

(* C7: a model whose allocations sum, rounded to two decimals, to something    *)
(* other than 1.00 makes construction fail with ValueError and leaves no       *)
(* object; a model whose rounded sum is 1.00 is accepted.                      *)
C7_ModelValidation ==
    RateObtained =>
        /\ RoundsToOne(SumAllocation(model_file)) =>
                /\ ~ ModelRejected
                /\ Constructed => model_portfolio = model_file
        /\ RoundsAway(SumAllocation(model_file)) =>
                /\ ModelRejected
                /\ portfolio = <<>> /\ model_portfolio = <<>>
                /\ core_portfolio = <<>> /\ satellite_portfolio = <<>>

C8_RowIsCurrent(r, total) ==
    LET h == Loc(portfolio, r.ticker)
    IN  /\ r.quantity = h.quantity
        /\ r.closing_price = h.closing_price
        /\ h.total_value = h.closing_price * h.quantity
        /\ r.total_value = h.closing_price * h.quantity
        /\ r.target_allocation = Loc(model_portfolio, r.ticker).target_allocation
        /\ r.actual_allocation = FDiv(r.total_value, total)
        /\ r.target_value = r.target_allocation * total
        /\ r.closing_price > 0 =>
            /\ IsFinite(r.target_quantity)
            /\ r.target_quantity = target_quantity_of(r.target_allocation, total,
                                                      r.closing_price)
            /\ r.rebalance_quantity = Fin(r.target_quantity.num - h.quantity)
            /\ r.rebalancing_cost = Fin((r.target_quantity.num - h.quantity) * h.closing_price)

RECURSIVE SumHeld(_, _)
SumHeld(df, keys) ==
    IF df = <<>> THEN 0
    ELSE (IF Head(df).ticker \in keys THEN Head(df).closing_price * Head(df).quantity ELSE 0)
            + SumHeld(Tail(df), keys)

C8_DerivedIsCurrent ==
    Constructed =>
        /\ IndexSet(core_portfolio) = IndexSet(model_portfolio)
        /\ Len(core_portfolio) = Len(model_portfolio)
        /\ \A i \in 1..Len(core_portfolio) :
            C8_RowIsCurrent(core_portfolio[i], SumHeld(portfolio, IndexSet(model_portfolio)))
        /\ satellite_portfolio
            = SelectSeq(portfolio, LAMBDA h : h.ticker \notin IndexSet(model_portfolio))

(* C8: the stored core and satellite tables are what the current holdings      *)
(* give: core quantity, total_value, actual_allocation, target_value,          *)
(* target_quantity, rebalance_quantity and rebalancing_cost follow from the    *)
(* current quantities and prices, and no no-sell column outlives a change of   *)
(* the holdings.                                                               *)
C8_NoStaleDerivedState ==
    /\ [] C8_DerivedIsCurrent
    /\ [][ portfolio' # portfolio => ~ HasNoSellColumns(core_portfolio') ]_vars

C8_Witness ==
    /\ dropped_no_sell
    /\ pc = "idle"
    /\ \E i \in 1..Len(portfolio) : portfolio[i].quantity # data_file[i].quantity

(* C9: a core row with closing_price <= 0 makes the unconstrained rebalance,   *)
(* and so construction and update_quantity, fail with a data error instead of  *)
(* producing target quantities.                                                *)
C9_NonPositivePriceRejected ==
    Constructed => \A i \in 1..Len(core_portfolio) :
        /\ core_portfolio[i].closing_price > 0
        /\ IsFinite(core_portfolio[i].target_quantity)

(* C10: valuation gives total_value = closing_price x quantity and             *)
(* total_value_cad = total_value x rate for USD rows, total_value for CAD      *)
(* rows, and fails, never leaving a home value missing, when a row's currency  *)
(* is neither USD nor CAD.                                                     *)
C10_CurrencyValidated ==
    Constructed => \A i \in 1..Len(portfolio) :
        LET h == portfolio[i]
        IN  /\ h.total_value = h.closing_price * h.quantity
            /\ h.currency \in {"USD", "CAD"}
            /\ h.currency = "USD" => h.total_value_cad = Fin(h.total_value * exchange_rate)
            /\ h.currency = "CAD" => h.total_value_cad = Fin(h.total_value * RateScale)

\* The holdings and the model of the worked example: A 10 units at 10, B 5 units
\* at 20, model A 0.6, B 0.4, the quantities as the file gives them.
C11_Scenario ==
    /\ Constructed
    /\ IndexSet(data_file) = {"A", "B"}
    /\ model_file = <<M("A", 600), M("B", 400)>>
    /\ Loc(portfolio, "A").quantity = 10 /\ Loc(portfolio, "A").closing_price = 10
    /\ Loc(portfolio, "B").quantity = 5 /\ Loc(portfolio, "B").closing_price = 20

\* The columns _rebalance gives row r of a core set of value total.
C11_RowIsRebalanced(r, total) ==
    /\ r.target_value = r.target_allocation * total
    /\ IsFinite(r.target_quantity) /\ r.target_quantity.den = 1
    /\ r.target_quantity.num * AllocScale * r.closing_price >= r.target_value
    /\ (r.target_quantity.num - 1) * AllocScale * r.closing_price < r.target_value
    /\ r.rebalance_quantity = Fin(r.target_quantity.num - r.quantity)
    /\ r.rebalancing_cost = Fin(r.rebalance_quantity.num * r.closing_price)

C11_General ==
    (Constructed /\ AllPricesPositive(core_portfolio)) =>
        /\ \A i \in 1..Len(core_portfolio) :
            C11_RowIsRebalanced(core_portfolio[i], SumTotalValue(core_portfolio))
        /\ \A i, j \in 1..Len(core_portfolio) :
            i < j => core_portfolio[i].rebalancing_cost.num
                        >= core_portfolio[j].rebalancing_cost.num

C11_Example ==
    C11_Scenario =>
        LET a == Loc(core_portfolio, "A")
            b == Loc(core_portfolio, "B")
        IN  /\ a.target_quantity = Fin(12) /\ b.target_quantity = Fin(4)
            /\ a.rebalance_quantity = Fin(2) /\ b.rebalance_quantity = Fin(-1)
            /\ a.rebalancing_cost = Fin(20) /\ b.rebalancing_cost = Fin(-20)
            /\ core_portfolio[1].ticker = "A" /\ core_portfolio[2].ticker = "B"
            /\ best_stock(core_portfolio)[1].ticker = "B"
            /\ b.total_value * AllocScale = 250 * b.target_allocation
            /\ NoSellPlanned(core_portfolio) =>
                /\ a.fractional_value_no_sell.num = 150 * a.fractional_value_no_sell.den
                /\ b.fractional_value_no_sell.num = 100 * b.fractional_value_no_sell.den
                /\ a.target_quantity_no_sell = 15 /\ b.target_quantity_no_sell = 5
                /\ a.rebalance_quantity_no_sell = 5 /\ b.rebalance_quantity_no_sell = 0

(* C11: for a core set with positive prices rebalance gives every row          *)
(* target_value = target_allocation x core value, target_quantity = ceil of    *)
(* target_value / closing_price, rebalance_quantity = target_quantity -        *)
(* quantity, rebalancing_cost = rebalance_quantity x closing_price, the rows   *)
(* in descending order of rebalancing_cost; for A 10 at 10, B 5 at 20 and      *)
(* model 0.6 / 0.4 that is 12 and 4, +2 and -1, +20 and -20, and the no-sell   *)
(* step anchors on B with value 250 and gives 15 and 5, +5 and 0.              *)
C11_RebalanceResult == C11_General /\ C11_Example

(* C12: on a core set with positive prices on which rebalance has run, and an  *)
(* anchor of target_allocation > 0, rebalance_no_sell anchors on the first row *)
(* in row order among those of minimum rebalancing_cost, and gives that row    *)
(* target_quantity_no_sell = quantity, so rebalance_quantity_no_sell = 0 and   *)
(* rebalancing_cost_no_sell = 0; a core set of one row needs no purchase.      *)
C12_AnchorNeedsNoPurchase ==
    ( /\ Constructed
      /\ NoSellPlanned(core_portfolio)
      /\ AllPricesPositive(core_portfolio)
      /\ best_stock(core_portfolio) # <<>>
      /\ best_stock(core_portfolio)[1].target_allocation > 0 )
    => LET anchor == best_stock(core_portfolio)[1]
       IN  /\ \A i \in 1..Len(core_portfolio) :
                core_portfolio[i].fractional_value_no_sell
                    = fractional_value_no_sell_of(core_portfolio[i], anchor)
           /\ anchor.target_quantity_no_sell = anchor.quantity
           /\ anchor.rebalance_quantity_no_sell = 0
           /\ anchor.rebalancing_cost_no_sell = 0

\* Row i of the working set can be paid for and has a rebalancing_cost to compare.
C13_Candidate(i) ==
    /\ scenario_portfolio[i].closing_price <= money_to_spend
    /\ ~ IsNaN(scenario_portfolio[i].rebalancing_cost)

\* Row i is the first, in row order, of the candidates of maximum rebalancing_cost.
C13_IsPick(i) ==
    /\ i \in 1..Len(scenario_portfolio)
    /\ C13_Candidate(i)
    /\ \A j \in 1..Len(scenario_portfolio) :
        C13_Candidate(j) =>
            /\ scenario_portfolio[j].rebalancing_cost.num
                    <= scenario_portfolio[i].rebalancing_cost.num
            /\ j < i => scenario_portfolio[j].rebalancing_cost.num
                            < scenario_portfolio[i].rebalancing_cost.num

\* The value of the rows the pass works on, the filter of line 277 applied.
RECURSIVE C13_AffordableValue(_, _)
C13_AffordableValue(df, money) ==
    IF df = <<>> THEN 0
    ELSE (IF Head(df).closing_price <= money THEN Head(df).total_value ELSE 0)
            + C13_AffordableValue(Tail(df), money)

\* A pass that buys row i: one unit of that ticker and of no other, paid for;
\* when the pass completes, the unit is in the purchase plan, the rows left can
\* all be paid for, and their rebalancing_cost is the one of the working set
\* with the unit bought.
C13_Buys(i) ==
    LET bought == scenario_portfolio[i]
        total == C13_AffordableValue(scenario_portfolio, money_to_spend)
                    + bought.closing_price
    IN  /\ money_to_spend' = money_to_spend - bought.closing_price
        /\ \A k \in 1..Len(scenario_portfolio') :
            LET r == scenario_portfolio'[k]
                before == Loc(scenario_portfolio, r.ticker)
            IN  /\ r.ticker \in IndexSet(scenario_portfolio)
                /\ r.quantity = before.quantity + (IF r.ticker = bought.ticker THEN 1 ELSE 0)
                /\ r.closing_price > 0 =>
                    r.rebalancing_cost
                        = FMulInt(FSubInt(target_quantity_of(r.target_allocation, total,
                                                             r.closing_price),
                                          r.quantity),
                                  r.closing_price)
        /\ pc' = "loop" =>
            /\ \A k \in 1..Len(scenario_portfolio') :
                scenario_portfolio'[k].closing_price <= money_to_spend'
            /\ \A k \in 1..Len(storage_dataframe) :
                LET now == storage_dataframe'[k]
                    was == storage_dataframe[k]
                IN  IF was.ticker = bought.ticker
                    THEN /\ now.quantity = was.quantity + 1
                         /\ now.purchase_cost = was.purchase_cost + bought.closing_price
                    ELSE now = was

(* C13: every pass of the spend loop that buys, buys one unit of one ticker,   *)
(* the first in row order among the rows priced <= remaining cash that have    *)
(* the maximum rebalancing_cost, the cost being the one recomputed over the    *)
(* working set after the purchase before; a row priced above the remaining     *)
(* cash is never bought.                                                       *)
C13_GreedyPick ==
    [][ (pc = "loop" /\ iterations' = iterations + 1) =>
            IF \E i \in 1..Len(scenario_portfolio) : C13_IsPick(i)
            THEN \E i \in 1..Len(scenario_portfolio) : C13_IsPick(i) /\ C13_Buys(i)
            ELSE raised' = "IndexError" ]_vars

\* Two passes made, the second on another ticker than the first.
C13_Witness ==
    /\ pc = "loop"
    /\ iterations >= 2
    /\ \E i, j \in 1..Len(storage_dataframe) :
        i # j /\ storage_dataframe[i].quantity > 0 /\ storage_dataframe[j].quantity > 0

====
